---- MODULE Spec2Model ----
(***************************************************************************)
(* Model of gemstone/common/configurable.py: the Configurable generator    *)
(* that packs named configuration fields into config registers             *)
(* (_setup_config / __create_register), answers get_config_data, and       *)
(* builds the read_config_data network.                                    *)
(*                                                                         *)
(* Field names are Python strings; they are modelled as tuples of          *)
(* character codes so that list.sort() is the lexicographic order it is    *)
(* in Python: <<1>> is "a", <<1, 2>> is "ab", <<2>> is "b".                *)
(***************************************************************************)
EXTENDS Integers, Sequences, FiniteSets, TLC

\* ------------------------------------------------------------------ bounds
MaxDataWidth == 2       \* config_data_width is MaxDataWidth - 1 or MaxDataWidth
AddrWidth == 1          \* config_addr_width
MaxValue == 5           \* values passed to get_config_data are -1..MaxValue
MaxSetupCalls == 2      \* _setup_config is invoked at most this often per object

Names == {<<1>>, <<1, 2>>, <<2>>}
DataWidths == (MaxDataWidth - 1)..MaxDataWidth
\* widths passed to add_config: every width that fits a register, and one that
\* does not
Widths(config_data_width) == 1..(config_data_width + 1)
Values == -1..MaxValue
Inst == {1, 2}

VARIABLES
  objs,         \* objs[i]: the fields of Configurable instance i
  last,         \* last[i]: the most recent call on instance i and its outcome
  setup_calls,  \* setup_calls[i]: invocations of _setup_config on instance i
  setup_done    \* setup_done[i]: invocations that returned normally

vars == <<objs, last, setup_calls, setup_done>>

\* ------------------------------------------------------- Python primitives
RECURSIVE Pow2(_)
Pow2(n) == IF n <= 0 THEN 1 ELSE 2 * Pow2(n - 1)

\* value << n and value >> n on Python ints (>> floors, as \div does)
Shl(value, n) == value * Pow2(n)
Shr(value, n) == value \div Pow2(n)

\* a & ((1 << n) - 1)
MaskLow(a, n) == a % Pow2(n)

\* a | b on non-negative ints
RECURSIVE BitOr(_, _)
BitOr(a, b) ==
  IF a = 0 THEN b
  ELSE IF b = 0 THEN a
  ELSE (IF (a % 2 = 1) \/ (b % 2 = 1) THEN 1 ELSE 0) + 2 * BitOr(a \div 2, b \div 2)

\* str.__lt__: lexicographic order on character codes, a proper prefix is less
RECURSIVE StrLess(_, _)
StrLess(s, t) ==
  IF s = <<>> THEN t # <<>>
  ELSE IF t = <<>> THEN FALSE
  ELSE IF Head(s) < Head(t) THEN TRUE
  ELSE IF Head(s) > Head(t) THEN FALSE
  ELSE StrLess(Tail(s), Tail(t))

\* one insertion step of list.sort()
RECURSIVE Insert(_, _)
Insert(x, sorted) ==
  IF sorted = <<>> THEN <<x>>
  ELSE IF StrLess(x, Head(sorted)) THEN <<x>> \o sorted
  ELSE <<Head(sorted)>> \o Insert(x, Tail(sorted))

RECURSIVE SortFrom(_, _)
SortFrom(names, acc) ==
  IF names = <<>> THEN acc ELSE SortFrom(Tail(names), Insert(Head(names), acc))

\* the sort left out: the names stay in declaration order
SortNames_Unsorted(names) == names

\* config_names.sort()
SortNames(names) == SortFrom(names, <<>>)

\* The insertion-ordered dict __register_cache is a sequence of <<key, value>>.
DictKeys(d) == [i \in 1..Len(d) |-> d[i][1]]
DictKeySet(d) == {d[i][1] : i \in 1..Len(d)}
DictGet(d, k) == d[CHOOSE i \in 1..Len(d) : d[i][1] = k][2]
DictSet(d, k, v) ==
  IF k \in DictKeySet(d)
  THEN [i \in 1..Len(d) |-> IF d[i][1] = k THEN <<k, v>> ELSE d[i]]
  ELSE Append(d, <<k, v>>)

\* ------------------------------------------------------ collaborating classes
\* Generator.add_port: a port name can be added once
PortExists(ports, name) == name \in ports

\* MuxWrapper.sel_bits for a mux of the given height
RECURSIVE clog2(_)
clog2(n) == IF n <= 1 THEN 0 ELSE 1 + clog2((n + 1) \div 2)

MuxWrapper(height, width) ==
  [height |-> height, width |-> width, sel_bits |-> clog2(height)]

\* SliceWrapper(base_width, lo, hi, name); ports I and O
SliceWrapper(base_width, lo, hi, name) ==
  [base_width |-> base_width, lo |-> lo, hi |-> hi, name |-> name,
   ports |-> {"I", "O"}]

\* ConfigRegister(width, use_config_en, name) followed by the three setters
ConfigRegister(width, addr, addr_width, data_width) ==
  [width |-> width, addr |-> addr, addr_width |-> addr_width,
   data_width |-> data_width]

\* read_config_data_mux = None
NoMux == [height |-> 0, width |-> 0, sel_bits |-> 0]

\* ------------------------------------------------------------ Configurable
\* Configurable.__init__
Configurable(config_addr_width, config_data_width) ==
  [__registers |-> <<>>,
   __register_cache |-> <<>>,
   __register_map |-> <<>>,
   registers |-> <<>>,
   config_addr_width |-> config_addr_width,
   config_data_width |-> config_data_width,
   read_config_data_mux |-> NoMux,
   slice_wires |-> {},
   mux_sel |-> <<0, 0>>,
   mux_inputs |-> <<>>,
   read_config_data |-> <<"unconnected">>]

Ok(o) == [o |-> o, err |-> "none"]
Raise(o, e) == [o |-> o, err |-> e]

\* add_config(name, width)
add_config(o, name, width) ==
  IF name \in DOMAIN o.registers
  THEN Raise(o, "ValueError")
  ELSE LET slice_wrapper == SliceWrapper(o.config_data_width, 0, width, name)
           popped == [slice_wrapper EXCEPT !.ports = @ \ {"I"}]
       IN Ok([o EXCEPT
                !.__register_cache = DictSet(@, name, width),
                !.registers = (name :> popped) @@ @])

\* add_configs(**kwargs): add_config on each item in order, stopping at a raise
RECURSIVE add_configs(_, _)
add_configs(o, kwargs) ==
  IF kwargs = <<>> THEN Ok(o)
  ELSE LET r == add_config(o, Head(kwargs)[1], Head(kwargs)[2])
       IN IF r.err # "none" THEN r ELSE add_configs(r.o, Tail(kwargs))

\* the assertion left out
RegWidthOk_NoAssert(reg_width, config_data_width) == TRUE

\* the assertion of __create_register
RegWidthOk(reg_width, config_data_width) == reg_width <= config_data_width

\* idx taken after the register was appended
MapEntry_OffByOne(idx, lo, hi) == <<idx + 1, lo, hi>>

\* the AddressMap entry written by __create_register
MapEntry(idx, lo, hi) == <<idx, lo, hi>>

\* the loop of __create_register over the working set
RECURSIVE WireMembers(_, _, _, _)
WireMembers(o, working_set, idx, reg_width) ==
  IF working_set = <<>> THEN Ok(o)
  ELSE LET name == Head(working_set)[1]
           lo == Head(working_set)[2]
           hi == Head(working_set)[3]
           resized == [o EXCEPT !.registers[name] =
                         [@ EXCEPT !.base_width = reg_width, !.lo = lo, !.hi = hi]]
       IN IF PortExists(o.registers[name].ports, "I")
          THEN Raise(resized, "ValueError")
          ELSE WireMembers(
                 [resized EXCEPT
                    !.registers[name].ports = @ \cup {"I"},
                    !.slice_wires = @ \cup {<<idx, name>>},
                    !.__register_map = (name :> MapEntry(idx, lo, hi)) @@ @],
                 Tail(working_set), idx, reg_width)

\* __create_register(working_set)
__create_register(o, working_set) ==
  IF working_set = <<>>
  THEN Raise(o, "IndexError")
  ELSE LET reg_width == working_set[Len(working_set)][3]
       IN IF ~RegWidthOk(reg_width, o.config_data_width)
          THEN Raise(o, "AssertionError")
          ELSE LET idx == Len(o.__registers)
                   reg == ConfigRegister(reg_width, idx, o.config_addr_width,
                                         o.config_data_width)
               IN WireMembers([o EXCEPT !.__registers = Append(@, reg)],
                              working_set, idx, reg_width)

\* the assertion of get_config_data
ValueFits(value, width) == value < Shl(1, width)

\* the value returned unshifted
ShiftedValue_NoShift(value, lo) == value

\* the data word returned by get_config_data
ShiftedValue(value, lo) == Shl(value, lo)

\* get_config_data(name, value)
get_config_data(o, name, value) ==
  IF name \notin DOMAIN o.__register_map
  THEN [err |-> "KeyError", idx |-> 0, word |-> 0]
  ELSE LET idx == o.__register_map[name][1]
           lo == o.__register_map[name][2]
           hi == o.__register_map[name][3]
           width == hi - lo
       IN IF ~ValueFits(value, width)
          THEN [err |-> "AssertionError", idx |-> 0, word |-> 0]
          ELSE [err |-> "none", idx |-> idx, word |-> ShiftedValue(value, lo)]

\* >= for >: a field that exactly fills the register starts a new one
Overflows_Ge(reg_width, reg_addr_offset, config_data_width) ==
  reg_width + reg_addr_offset >= config_data_width

\* the word-boundary test of _setup_config
Overflows(reg_width, reg_addr_offset, config_data_width) ==
  reg_width + reg_addr_offset > config_data_width

\* the offset left out of lo and hi
FieldRange_NoOffset(reg_addr_offset, reg_width) == <<0, reg_width>>

\* the (lo, hi) given to a field placed at reg_addr_offset
FieldRange(reg_addr_offset, reg_width) ==
  <<reg_addr_offset, reg_addr_offset + reg_width>>

\* the for loop of _setup_config over the sorted names
RECURSIVE PackLoop(_, _, _, _)
PackLoop(o, config_names, working_set, reg_addr_offset) ==
  IF config_names = <<>> THEN [o |-> o, err |-> "none", working_set |-> working_set]
  ELSE LET config_name == Head(config_names)
           reg_width == DictGet(o.__register_cache, config_name)
           close == Overflows(reg_width, reg_addr_offset, o.config_data_width)
           r == IF close THEN __create_register(o, working_set) ELSE Ok(o)
           offset == IF close THEN 0 ELSE reg_addr_offset
           kept == IF close THEN <<>> ELSE working_set
           range == FieldRange(offset, reg_width)
       IN IF r.err # "none"
          THEN [o |-> r.o, err |-> r.err, working_set |-> working_set]
          ELSE PackLoop(r.o, Tail(config_names),
                        Append(kept, <<config_name, range[1], range[2]>>),
                        offset + reg_width)

\* _zext(port, old_width, new_width): whether a ZextWrapper is inserted
_zext(old_width, new_width) == old_width # new_width

\* the read_config_data part of _setup_config
ReadConfigData(o) ==
  LET num_config_reg == Len(o.__registers)
      mux == MuxWrapper(num_config_reg, o.config_data_width)
  IN IF num_config_reg > 1
     THEN [o EXCEPT
             !.read_config_data_mux = mux,
             !.mux_sel = <<0, mux.sel_bits>>,
             !.read_config_data = <<"mux">>,
             !.mux_inputs = [idx \in 1..num_config_reg |->
                [reg |-> idx - 1,
                 zext |-> _zext(o.__registers[idx].width, o.config_data_width)]]]
     ELSE IF num_config_reg = 1
     THEN [o EXCEPT !.read_config_data =
             <<"reg", 0, _zext(o.__registers[1].width, o.config_data_width)>>]
     ELSE o

\* _setup_config()
_setup_config(o) ==
  LET config_names == SortNames(DictKeys(o.__register_cache))
      packed == PackLoop(o, config_names, <<>>, 0)
      closed == IF packed.err = "none" /\ packed.working_set # <<>>
                THEN __create_register(packed.o, packed.working_set)
                ELSE [o |-> packed.o, err |-> packed.err]
  IN IF closed.err # "none" THEN Raise(closed.o, closed.err)
     ELSE Ok(ReadConfigData(closed.o))

\* ------------------------------------------------------------------ calls
NoCall == [op |-> "init", err |-> "none", name |-> <<>>, value |-> 0,
           idx |-> 0, word |-> 0]

Call(op, err) == [NoCall EXCEPT !.op = op, !.err = err]

TypeOK ==
  /\ DOMAIN objs = Inst
  /\ \A i \in Inst :
       /\ objs[i].config_data_width \in DataWidths
       /\ objs[i].config_addr_width = AddrWidth
       /\ DictKeySet(objs[i].__register_cache) \subseteq Names
       /\ setup_done[i] <= setup_calls[i]
       /\ setup_calls[i] <= MaxSetupCalls

\* Both instances are constructed with the same bus parameters.
Init ==
  /\ \E dw \in DataWidths : objs = [i \in Inst |-> Configurable(AddrWidth, dw)]
  /\ last = [i \in Inst |-> NoCall]
  /\ setup_calls = [i \in Inst |-> 0]
  /\ setup_done = [i \in Inst |-> 0]

\* a call of add_config on instance i
AddConfig(i, name, width) ==
  LET r == add_config(objs[i], name, width)
  IN /\ objs' = [objs EXCEPT ![i] = r.o]
     /\ last' = [last EXCEPT ![i] = Call("add_config", r.err)]
     /\ UNCHANGED <<setup_calls, setup_done>>

\* a call of add_configs on instance i with two keyword arguments of one width
AddConfigs(i, n1, n2, width) ==
  LET r == add_configs(objs[i], <<<<n1, width>>, <<n2, width>>>>)
  IN /\ n1 # n2
     /\ objs' = [objs EXCEPT ![i] = r.o]
     /\ last' = [last EXCEPT ![i] = Call("add_configs", r.err)]
     /\ UNCHANGED <<setup_calls, setup_done>>

\* a call of _setup_config on instance i
SetupConfig(i) ==
  LET r == _setup_config(objs[i])
  IN /\ setup_calls[i] < MaxSetupCalls
     /\ objs' = [objs EXCEPT ![i] = r.o]
     /\ last' = [last EXCEPT ![i] = Call("_setup_config", r.err)]
     /\ setup_calls' = [setup_calls EXCEPT ![i] = @ + 1]
     /\ setup_done' = [setup_done EXCEPT ![i] = IF r.err = "none" THEN @ + 1 ELSE @]

\* a call of get_config_data on instance i
GetConfigData(i, name, value) ==
  LET r == get_config_data(objs[i], name, value)
  IN /\ last' = [last EXCEPT ![i] =
                   [op |-> "get_config_data", err |-> r.err, name |-> name,
                    value |-> value, idx |-> r.idx, word |-> r.word]]
     /\ UNCHANGED <<objs, setup_calls, setup_done>>

\* get_config_data leaves the object as it is, so a call made after a lookup
\* reaches the object it would reach without it: every sequence of the calls
\* that change the object is explored, and each lookup as the call that
\* follows it.
Building(i) == last[i].op # "get_config_data"

W(i) == Widths(objs[i].config_data_width)

\* One allocator, the calls that change it in any order, then a lookup.
Next ==
  \/ \E name \in Names, width \in W(1) :
       Building(1) /\ AddConfig(1, name, width)
  \/ \E n1 \in Names, n2 \in Names, width \in W(1) :
       Building(1) /\ AddConfigs(1, n1, n2, width)
  \/ Building(1) /\ SetupConfig(1)
  \/ \E name \in Names, value \in Values :
       Building(1) /\ GetConfigData(1, name, value)

Spec == Init /\ [][Next]_vars

\* Two allocators with the same bus parameters: the first declares fields and
\* runs _setup_config, then the second declares fields of the first, in any
\* order, and runs _setup_config.
NextDet ==
  \/ \E name \in Names, width \in W(1) :
       setup_calls[1] = 0 /\ AddConfig(1, name, width)
  \/ setup_calls[1] = 0 /\ SetupConfig(1)
  \/ \E k \in 1..Len(objs[1].__register_cache) :
       /\ setup_calls[1] = 1 /\ setup_calls[2] = 0
       /\ AddConfig(2, objs[1].__register_cache[k][1], objs[1].__register_cache[k][2])
  \/ setup_calls[1] = 1 /\ setup_calls[2] = 0 /\ SetupConfig(2)

SpecDet == Init /\ [][NextDet]_vars

\* ----------------------------------------------------------------- layout
\* _setup_config was the last call on instance i and returned normally
Completed(i) == last[i].op = "_setup_config" /\ last[i].err = "none"

\* the declared fields
Declared(o) == DictKeySet(o.__register_cache)
Pairs(o) == {o.__register_cache[k] : k \in 1..Len(o.__register_cache)}
TooWide(o) == {n \in Declared(o) : DictGet(o.__register_cache, n) > o.config_data_width}

\* the fields whose slice is wired to the output of register idx
Members(o, idx) == {n \in DOMAIN o.registers : <<idx, n>> \in o.slice_wires}
NumRegs(o) == Len(o.__registers)

\* decode(name, register_value) of the specification
decode(lo, hi, register_value) == MaskLow(Shr(register_value, lo), hi - lo)

\* the members of every register partition its bits
Partition(o) ==
  \A r \in 1..NumRegs(o) :
    LET width == o.__registers[r].width
        M == Members(o, r - 1)
    IN /\ width >= 1
       /\ \A n \in M : 0 <= o.registers[n].lo /\ o.registers[n].lo < o.registers[n].hi
                       /\ o.registers[n].hi <= width
       /\ \E n \in M : o.registers[n].lo = 0
       /\ \E n \in M : o.registers[n].hi = width
       /\ \A bit \in 0..(width - 1) :
            Cardinality({n \in M : o.registers[n].lo <= bit /\ bit < o.registers[n].hi}) = 1

\* C1: after _setup_config returns, in every register the members' [lo, hi)
\* ranges are non-empty, lie in [0, width) and cover every bit of [0, width)
\* exactly once: they partition [0, width), starting at 0, without gap or
\* overlap, and the width is the last member's hi.
C1_Partition == Completed(1) => Partition(objs[1])

C1_Witness ==
  /\ Completed(1)
  /\ NumRegs(objs[1]) >= 2
  /\ \E r \in 1..NumRegs(objs[1]) : Cardinality(Members(objs[1], r - 1)) >= 2

\* every declared field is wired to and mapped into one register
Coverage(o) ==
  /\ DOMAIN o.__register_map = Declared(o)
  /\ \A n \in Declared(o) :
       /\ Cardinality({w \in o.slice_wires : w[2] = n}) = 1
       /\ n \in DOMAIN o.__register_map
       /\ \E idx \in 0..(NumRegs(o) - 1) :
            /\ <<idx, n>> \in o.slice_wires
            /\ o.__register_map[n] = <<idx, o.registers[n].lo, o.registers[n].hi>>
            /\ o.registers[n].base_width = o.__registers[idx + 1].width
            /\ o.registers[n].hi - o.registers[n].lo = DictGet(o.__register_cache, n)

\* C2: after _setup_config returns, every declared field is wired to exactly
\* one register, the AddressMap has an entry for exactly the declared names,
\* and a field's entry is (that register's index, the slice's lo, the slice's
\* hi), the register being one of the list and the slice cut from its width.
C2_Coverage == Completed(1) => Coverage(objs[1])

C2_Witness ==
  /\ Completed(1)
  /\ Cardinality(Declared(objs[1])) = 3
  /\ NumRegs(objs[1]) = 2

\* C3: two allocators with the same bus parameters that declared the same set
\* of (name, width) pairs, in whatever order, and whose _setup_config returned
\* have the same list of registers, the same AddressMap and the same slices.
C3_Determinism ==
  (Completed(1) /\ Completed(2) /\ Pairs(objs[1]) = Pairs(objs[2])) =>
    /\ objs[1].__registers = objs[2].__registers
    /\ objs[1].__register_map = objs[2].__register_map
    /\ objs[1].registers = objs[2].registers
    /\ objs[1].slice_wires = objs[2].slice_wires

C3_Witness ==
  /\ Completed(1) /\ Completed(2)
  /\ Pairs(objs[1]) = Pairs(objs[2])
  /\ objs[1].__register_cache # objs[2].__register_cache
  /\ NumRegs(objs[2]) >= 2

\* C4: in every reachable state, whatever was declared and however
\* _setup_config ended, every register of the list is at most
\* config_data_width wide.
C4_BinWidthBound ==
  \A r \in 1..NumRegs(objs[1]) :
    objs[1].__registers[r].width <= objs[1].config_data_width

C4_Witness ==
  /\ last[1].op = "_setup_config"
  /\ last[1].err = "AssertionError"
  /\ NumRegs(objs[1]) >= 1
  /\ TooWide(objs[1]) # {}

\* ----------------------------------------------------------------- lookups
\* get_config_data was the last call on instance i and returned normally
Encoded(i) == last[i].op = "get_config_data" /\ last[i].err = "none"

\* the outcome c of a get_config_data call decodes to the value passed
RoundTrip(o, c) ==
  LET lo == o.__register_map[c.name][2]
      hi == o.__register_map[c.name][3]
  IN (0 <= c.value /\ c.value < Pow2(hi - lo)) =>
       /\ c.idx = o.__register_map[c.name][1]
       /\ decode(lo, hi, c.word) = c.value
       /\ c.word % Pow2(lo) = 0
       /\ 0 <= c.word /\ c.word < Pow2(hi)
       /\ \A n \in DOMAIN o.__register_map \ {c.name} :
            o.__register_map[n][1] = c.idx =>
              LET lo2 == o.__register_map[n][2]
                  hi2 == o.__register_map[n][3]
              IN \A v2 \in 0..(Pow2(hi2 - lo2) - 1) :
                   LET other == get_config_data(o, n, v2)
                       both == BitOr(c.word, other.word)
                   IN /\ other.err = "none"
                      /\ decode(lo, hi, both) = c.value
                      /\ decode(lo2, hi2, both) = v2

\* C5: when get_config_data(name, v) with 0 <= v < 2^(hi-lo) returns
\* (idx, word), decoding word over the field's [lo, hi) gives v, word has no
\* bit set outside [lo, hi), and OR-ing word with the encoded word of any
\* value of any other field of register idx keeps both fields' values.
C5_RoundTrip == Encoded(1) => RoundTrip(objs[1], last[1])

C5_Witness ==
  /\ Encoded(1)
  /\ setup_done[1] = 1 /\ setup_calls[1] = 1
  /\ last[1].value = 1
  /\ objs[1].__register_map[last[1].name][2] > 0
  /\ last[1].word = 2
  /\ Cardinality({n \in DOMAIN objs[1].__register_map :
                    objs[1].__register_map[n][1] = last[1].idx}) >= 2

\* C8: for a name in the AddressMap as (idx, lo, hi), get_config_data raises
\* for every value that hi - lo bits cannot represent and returns
\* (idx, value << lo) for every value they can; for a name that is not in
\* the AddressMap it raises.
C8_EncodeChecked ==
  last[1].op = "get_config_data" =>
    IF last[1].name \notin DOMAIN objs[1].__register_map
    THEN last[1].err # "none"
    ELSE LET idx == objs[1].__register_map[last[1].name][1]
             lo == objs[1].__register_map[last[1].name][2]
             hi == objs[1].__register_map[last[1].name][3]
             representable == 0 <= last[1].value /\ last[1].value < Pow2(hi - lo)
         IN IF representable
            THEN /\ last[1].err = "none"
                 /\ last[1].idx = idx
                 /\ last[1].word = last[1].value * Pow2(lo)
            ELSE last[1].err # "none"

\* ------------------------------------------------------------- finalization
\* C6: _setup_config on a registry that holds a field wider than
\* config_data_width ends in the register-width assertion, whatever the
\* place of the field in sorted order, and maps no such field.
C6_TooWideRejected ==
  (last[1].op = "_setup_config" /\ setup_calls[1] = 1 /\ TooWide(objs[1]) # {}) =>
    /\ last[1].err = "AssertionError"
    /\ TooWide(objs[1]) \cap DOMAIN objs[1].__register_map = {}

\* C7: once _setup_config has returned normally, every later invocation
\* raises and leaves the list of registers and the AddressMap as they were.
C7_SetupOnce ==
  [][(setup_done[1] >= 1 /\ setup_calls'[1] = setup_calls[1] + 1) =>
       /\ last'[1].err # "none"
       /\ objs'[1].__registers = objs[1].__registers
       /\ objs'[1].__register_map = objs[1].__register_map]_vars

\* C9: _setup_config that leaves N > 1 registers selects among them with
\* exactly ceil(log2(N)) low bits of config_addr, and _setup_config raises
\* when N exceeds 2^config_addr_width, so that after a normal return every
\* register's address fits config_addr.
C9_AddressableBins ==
  last[1].op = "_setup_config" =>
    LET o == objs[1]
        N == NumRegs(o)
    IN /\ N > Pow2(o.config_addr_width) => last[1].err # "none"
       /\ (last[1].err = "none" /\ N > 1) =>
            /\ o.read_config_data_mux.sel_bits = clog2(N)
            /\ o.mux_sel = <<0, clog2(N)>>
            /\ o.read_config_data = <<"mux">>
       /\ last[1].err = "none" =>
            \A r \in 1..N : o.__registers[r].addr < Pow2(o.config_addr_width)

\* the registers are filled in sorted-name order, each as far as it goes
Greedy(o) ==
  /\ \A r \in 1..NumRegs(o) : o.__registers[r].addr = r - 1
  /\ DOMAIN o.__register_map = Declared(o)
  /\ \A n1 \in DOMAIN o.__register_map, n2 \in DOMAIN o.__register_map :
       StrLess(n1, n2) =>
         \/ o.__register_map[n1][1] < o.__register_map[n2][1]
         \/ /\ o.__register_map[n1][1] = o.__register_map[n2][1]
            /\ o.__register_map[n1][2] < o.__register_map[n2][2]
  /\ \A r \in 1..(NumRegs(o) - 1) :
       \E n \in DOMAIN o.__register_map :
         /\ o.__register_map[n] = <<r, 0, DictGet(o.__register_cache, n)>>
         /\ o.__registers[r].width + DictGet(o.__register_cache, n)
              > o.config_data_width

\* C10: after _setup_config returns, the registers' addresses are 0..N-1 in
\* list order, the fields read by (register index, lo) are in lexicographic
\* name order, and for consecutive registers i, i+1 the width of register i
\* plus the width of the first member of register i+1 exceeds
\* config_data_width.
C10_GreedySorted == Completed(1) => Greedy(objs[1])

C10_Witness ==
  /\ Completed(1)
  /\ NumRegs(objs[1]) = 2
  /\ Cardinality(Members(objs[1], 0)) = 2
  /\ objs[1].__registers[1].width = objs[1].config_data_width
  /\ DictKeys(objs[1].__register_cache) # SortNames(DictKeys(objs[1].__register_cache))
====
